---- MODULE Spec2Model ----
(***************************************************************************)
(* Model of collection_utils (src/collection_utils.hpp): a header of       *)
(* stateless generic functions over std::vector, std::unordered_map,       *)
(* std::set and std::unordered_set.                                        *)
(*                                                                         *)
(* The library keeps no state of its own, so the state of the model is the *)
(* record of one call: which function a client called (op), with which     *)
(* arguments (args) and what came back (res).  Every function is an        *)
(* operator that follows the loop of the source; a client action draws the *)
(* arguments from bounded sets and applies the operator.                   *)
(*                                                                         *)
(* Containers:                                                             *)
(*   std::vector<T>            a sequence                                  *)
(*   std::unordered_map<K,V>   a function whose DOMAIN is the keyset; the  *)
(*                             iteration order is unspecified, so every    *)
(*                             loop over a map takes the order as an extra *)
(*                             argument that the caller draws freely       *)
(*   std::set<T>               the strictly increasing sequence of its     *)
(*                             elements (its iteration order)              *)
(*   std::unordered_set<T>     a set, iterated in a freely drawn order     *)
(***************************************************************************)
EXTENDS Integers, Sequences, FiniteSets, TLC

VARIABLES op, args, res

vars == <<op, args, res>>

(***************************************************************************)
(* Bounds of the input domains.                                            *)
(***************************************************************************)
MaxLen == 3      \* longest vector drawn
MaxElem == 2     \* vector and set elements are 0..MaxElem
NumKeys == 2     \* map keys are 1..NumKeys
MaxVal == 1      \* map values are 0..MaxVal

Elems == 0..MaxElem
Keys == 1..NumKeys
Vals == 0..MaxVal

SeqsUpTo(S, n) == UNION {[1..k -> S] : k \in 0..n}
Vectors == SeqsUpTo(Elems, MaxLen)

Range(s) == {s[i] : i \in DOMAIN s}

\* every order in which a hash container holding exactly S can be iterated
IterationOrders(S) ==
    {s \in [1..Cardinality(S) -> S] : \A i, j \in DOMAIN s : i # j => s[i] # s[j]}

\* every unordered_map<K,V> with keys in K and values in V
Maps(K, V) == UNION {[D -> V] : D \in SUBSET K}

EmptyMap == [k \in {} |-> 0]

(***************************************************************************)
(* any_of / all_of                                                         *)
(***************************************************************************)
\* the lambda [](auto v) { return static_cast<bool>(v); } on an integer
static_cast_bool(v) == v # 0

\* std::any_of: the first element satisfying the predicate ends the scan
RECURSIVE std_any_of(_, _)
std_any_of(c, i) ==
    IF i > Len(c) THEN FALSE
    ELSE IF static_cast_bool(c[i]) THEN TRUE
    ELSE std_any_of(c, i + 1)

\* std::all_of: the first element failing the predicate ends the scan
RECURSIVE std_all_of(_, _)
std_all_of(c, i) ==
    IF i > Len(c) THEN TRUE
    ELSE IF ~static_cast_bool(c[i]) THEN FALSE
    ELSE std_all_of(c, i + 1)

any_of(c) == std_any_of(c, 1)

\* faulty variant of all_of: std::any_of called in its place
all_of_Any(c) == std_any_of(c, 1)
all_of(c) == std_all_of(c, 1)

(***************************************************************************)
(* join_vectors                                                            *)
(***************************************************************************)
\* result.insert(result.end(), v.begin(), v.end())
insert_at_end(result, v) == result \o v

\* faulty variant of join_vectors: v2 inserted first
join_vectors_Swapped(v1, v2) == insert_at_end(insert_at_end(<<>>, v2), v1)
join_vectors(v1, v2) == insert_at_end(insert_at_end(<<>>, v1), v2)

(***************************************************************************)
(* map_vector.  func is a table [Elems -> Elems]; calls is the sequence of *)
(* arguments func was invoked with, in invocation order (its observable    *)
(* side effect).                                                           *)
(***************************************************************************)
RECURSIVE map_vector_loop(_, _, _, _)
map_vector_loop(vec, func, i, st) ==
    IF i > Len(vec) THEN st
    ELSE map_vector_loop(vec, func, i + 1,
             [result |-> Append(st.result, func[vec[i]]),
              calls  |-> Append(st.calls, vec[i])])

\* faulty variant of map_vector: same result, func called from the last element down
RECURSIVE map_vector_loop_Reversed(_, _, _, _)
map_vector_loop_Reversed(vec, func, i, st) ==
    IF i < 1 THEN st
    ELSE map_vector_loop_Reversed(vec, func, i - 1,
             [result |-> <<func[vec[i]]>> \o st.result,
              calls  |-> Append(st.calls, vec[i])])

map_vector_Reversed(vec, func) ==
    map_vector_loop_Reversed(vec, func, Len(vec), [result |-> <<>>, calls |-> <<>>])
map_vector(vec, func) ==
    map_vector_loop(vec, func, 1, [result |-> <<>>, calls |-> <<>>])

(***************************************************************************)
(* unordered_map primitives                                                *)
(***************************************************************************)
\* m.emplace(k, v): inserts only when k is not yet a key of m
emplace(m, k, v) == IF k \in DOMAIN m THEN m ELSE m @@ (k :> v)

\* m[k] = v: inserts k when absent, then overwrites the value
subscript_assign(m, k, v) ==
    [x \in DOMAIN m \cup {k} |-> IF x = k THEN v ELSE m[x]]

(***************************************************************************)
(* filter_map and its specialisations.  A predicate is the set of the      *)
(* arguments on which it returns true; it is the iteration order of        *)
(* input_map.                                                              *)
(***************************************************************************)
RECURSIVE filter_map_loop(_, _, _, _, _)
filter_map_loop(input_map, it, pred, i, result) ==
    IF i > Len(it) THEN result
    ELSE LET key == it[i]
             value == input_map[key]
         IN filter_map_loop(input_map, it, pred, i + 1,
                IF <<key, value>> \in pred THEN emplace(result, key, value)
                ELSE result)

filter_map(input_map, it, pred) == filter_map_loop(input_map, it, pred, 1, EmptyMap)

RECURSIVE filter_map_by_keys_loop(_, _, _, _, _)
filter_map_by_keys_loop(input_map, it, pred, i, result) ==
    IF i > Len(it) THEN result
    ELSE LET key == it[i]
             value == input_map[key]
         IN filter_map_by_keys_loop(input_map, it, pred, i + 1,
                IF key \in pred THEN emplace(result, key, value)
                ELSE result)

filter_map_by_keys(input_map, it, pred) ==
    filter_map_by_keys_loop(input_map, it, pred, 1, EmptyMap)

\* the lambda [&](const K &key) { return key_set.find(key) != key_set.end(); }
key_set_lambda(key_set) == {key \in Keys : key \in key_set}

\* faulty variant of filter_map_by_key_set: find(key) == end() in the lambda
filter_map_by_key_set_Negated(input_map, it, key_set) ==
    filter_map_by_keys(input_map, it, Keys \ key_set_lambda(key_set))
filter_map_by_key_set(input_map, it, key_set) ==
    filter_map_by_keys(input_map, it, key_set_lambda(key_set))

RECURSIVE filter_map_by_values_loop(_, _, _, _, _)
filter_map_by_values_loop(input_map, it, pred, i, result) ==
    IF i > Len(it) THEN result
    ELSE LET key == it[i]
             value == input_map[key]
         IN filter_map_by_values_loop(input_map, it, pred, i + 1,
                IF value \in pred THEN emplace(result, key, value)
                ELSE result)

filter_map_by_values(input_map, it, pred) ==
    filter_map_by_values_loop(input_map, it, pred, 1, EmptyMap)

(***************************************************************************)
(* build_map_from_vector.  key_func is a table [Elems -> Keys].            *)
(***************************************************************************)
RECURSIVE build_map_from_vector_loop(_, _, _, _)
build_map_from_vector_loop(vec, key_func, i, map) ==
    IF i > Len(vec) THEN map
    ELSE LET item == vec[i]
         IN build_map_from_vector_loop(vec, key_func, i + 1,
                emplace(map, key_func[item], item))

\* faulty variant of build_map_from_vector: map[key] = item (last occurrence wins)
RECURSIVE build_map_from_vector_loop_LastWins(_, _, _, _)
build_map_from_vector_loop_LastWins(vec, key_func, i, map) ==
    IF i > Len(vec) THEN map
    ELSE LET item == vec[i]
         IN build_map_from_vector_loop_LastWins(vec, key_func, i + 1,
                subscript_assign(map, key_func[item], item))

build_map_from_vector_LastWins(vec, key_func) ==
    build_map_from_vector_loop_LastWins(vec, key_func, 1, EmptyMap)
build_map_from_vector(vec, key_func) ==
    build_map_from_vector_loop(vec, key_func, 1, EmptyMap)

(***************************************************************************)
(* combine_maps.  A call either returns a map or throws.                   *)
(***************************************************************************)
Returned(v) == [kind |-> "return", value |-> v]
Thrown(type, what) == [kind |-> "throw", type |-> type, what |-> what]

\* the binary functions a caller passes as func
Funcs == {"add", "sub", "mul"}
invoke(func, a, b) ==
    CASE func = "add" -> a + b
      [] func = "sub" -> a - b
      [] func = "mul" -> a * b

RECURSIVE combine_maps_loop(_, _, _, _, _, _)
combine_maps_loop(map1, it1, map2, func, i, result) ==
    IF i > Len(it1) THEN Returned(result)
    ELSE LET key == it1[i]
         IN IF key \notin DOMAIN map2
            THEN Thrown("std::invalid_argument", "Keysets of the maps do not match")
            ELSE combine_maps_loop(map1, it1, map2, func, i + 1,
                     subscript_assign(result, key, invoke(func, map1[key], map2[key])))

\* faulty variants of combine_maps: the size test alone, no size test, func's
\* arguments swapped
combine_maps_SizeOnly(map1, it1, map2, func) ==
    IF Cardinality(DOMAIN map1) # Cardinality(DOMAIN map2)
    THEN Thrown("std::invalid_argument", "Maps do not have the same number of elements")
    ELSE Returned([key \in DOMAIN map1 \cap DOMAIN map2 |->
                      invoke(func, map1[key], map2[key])])

combine_maps_NoSizeCheck(map1, it1, map2, func) ==
    combine_maps_loop(map1, it1, map2, func, 1, EmptyMap)

combine_maps_SwappedArgs(map1, it1, map2, func) ==
    LET r == combine_maps_loop(map1, it1, map2, func, 1, EmptyMap)
    IN IF Cardinality(DOMAIN map1) # Cardinality(DOMAIN map2)
       THEN Thrown("std::invalid_argument", "Maps do not have the same number of elements")
       ELSE IF r.kind = "throw" THEN r
       ELSE Returned([key \in DOMAIN r.value |-> invoke(func, map2[key], map1[key])])

combine_maps(map1, it1, map2, func) ==
    IF Cardinality(DOMAIN map1) # Cardinality(DOMAIN map2)
    THEN Thrown("std::invalid_argument", "Maps do not have the same number of elements")
    ELSE combine_maps_loop(map1, it1, map2, func, 1, EmptyMap)

(***************************************************************************)
(* Sets                                                                    *)
(***************************************************************************)
IsStdSet(s) == \A i, j \in DOMAIN s : i < j => s[i] < s[j]

\* the std::set<T> holding exactly the elements of S
StdSetOf(S) == CHOOSE s \in IterationOrders(S) : IsStdSet(s)

\* std::set::insert, also through std::inserter: kept sorted, no duplicates
std_set_insert(s, x) ==
    IF x \in Range(s) THEN s
    ELSE SelectSeq(s, LAMBDA y : y < x) \o <<x>> \o SelectSeq(s, LAMBDA y : x < y)

\* std::set<T>(vec.begin(), vec.end())
RECURSIVE to_set_loop(_, _, _)
to_set_loop(vec, i, s) ==
    IF i > Len(vec) THEN s ELSE to_set_loop(vec, i + 1, std_set_insert(s, vec[i]))

\* faulty variant of to_set: a sorted container that keeps duplicates (std::multiset)
RECURSIVE to_set_loop_Multi(_, _, _)
to_set_loop_Multi(vec, i, s) ==
    IF i > Len(vec) THEN s
    ELSE to_set_loop_Multi(vec, i + 1,
             SelectSeq(s, LAMBDA y : y <= vec[i]) \o <<vec[i]>>
                 \o SelectSeq(s, LAMBDA y : vec[i] < y))

to_set_Multi(vec) == to_set_loop_Multi(vec, 1, <<>>)
to_set(vec) == to_set_loop(vec, 1, <<>>)

\* std::unordered_set<T>(vec.begin(), vec.end())
RECURSIVE to_unordered_set_loop(_, _, _)
to_unordered_set_loop(vec, i, s) ==
    IF i > Len(vec) THEN s ELSE to_unordered_set_loop(vec, i + 1, s \cup {vec[i]})

to_unordered_set(vec) == to_unordered_set_loop(vec, 1, {})

\* std::set_intersection over two sorted ranges, writing through an inserter
RECURSIVE std_set_intersection(_, _, _, _, _)
std_set_intersection(a, b, i, j, result) ==
    IF i > Len(a) \/ j > Len(b) THEN result
    ELSE IF a[i] < b[j] THEN std_set_intersection(a, b, i + 1, j, result)
    ELSE IF b[j] < a[i] THEN std_set_intersection(a, b, i, j + 1, result)
    ELSE std_set_intersection(a, b, i + 1, j + 1, std_set_insert(result, a[i]))

\* faulty variant of the merge: a smaller element of a also skips the element of b
RECURSIVE std_set_intersection_Skip(_, _, _, _, _)
std_set_intersection_Skip(a, b, i, j, result) ==
    IF i > Len(a) \/ j > Len(b) THEN result
    ELSE IF a[i] < b[j] THEN std_set_intersection_Skip(a, b, i + 1, j + 1, result)
    ELSE IF b[j] < a[i] THEN std_set_intersection_Skip(a, b, i, j + 1, result)
    ELSE std_set_intersection_Skip(a, b, i + 1, j + 1, std_set_insert(result, a[i]))

set_intersection_ordered_Skip(a, b) == std_set_intersection_Skip(a, b, 1, 1, <<>>)

\* the if constexpr branch taken for SetType = std::set<T>
set_intersection_ordered(a, b) == std_set_intersection(a, b, 1, 1, <<>>)

\* the fallback branch (std::unordered_set<T>): it is the iteration order of a
RECURSIVE set_intersection_scan(_, _, _, _)
set_intersection_scan(it, b, i, result) ==
    IF i > Len(it) THEN result
    ELSE set_intersection_scan(it, b, i + 1,
             IF it[i] \in b THEN result \cup {it[i]} ELSE result)

set_intersection_unordered(it, b) == set_intersection_scan(it, b, 1, {})

(***************************************************************************)
(* Client calls                                                            *)
(***************************************************************************)
Init ==
    /\ op = "idle"
    /\ args = <<>>
    /\ res = <<>>

CallAnyAll ==
    /\ op = "idle"
    /\ \E c \in Vectors :
        /\ op' = "any_all"
        /\ args' = [c |-> c]
        /\ res' = [any |-> any_of(c), all |-> all_of(c)]

CallJoinVectors ==
    /\ op = "idle"
    /\ \E v1 \in Vectors, v2 \in Vectors :
        /\ op' = "join_vectors"
        /\ args' = [v1 |-> v1, v2 |-> v2]
        /\ res' = join_vectors(v1, v2)

CallMapVector ==
    /\ op = "idle"
    /\ \E vec \in Vectors, func \in [Elems -> Elems] :
        /\ op' = "map_vector"
        /\ args' = [vec |-> vec, func |-> func]
        /\ res' = map_vector(vec, func)

CallFilterMap ==
    /\ op = "idle"
    /\ \E input_map \in Maps(Keys, Vals), pred \in SUBSET (Keys \X Vals) :
       \E it \in IterationOrders(DOMAIN input_map) :
        /\ op' = "filter_map"
        /\ args' = [input_map |-> input_map, it |-> it, pred |-> pred]
        /\ res' = filter_map(input_map, it, pred)

CallFilterMapByKeys ==
    /\ op = "idle"
    /\ \E input_map \in Maps(Keys, Vals), pred \in SUBSET Keys :
       \E it \in IterationOrders(DOMAIN input_map) :
        /\ op' = "filter_map_by_keys"
        /\ args' = [input_map |-> input_map, it |-> it, pred |-> pred]
        /\ res' = filter_map_by_keys(input_map, it, pred)

CallFilterMapByKeySet ==
    /\ op = "idle"
    /\ \E input_map \in Maps(Keys, Vals), key_set \in SUBSET Keys :
       \E it \in IterationOrders(DOMAIN input_map) :
        /\ op' = "filter_map_by_key_set"
        /\ args' = [input_map |-> input_map, it |-> it, key_set |-> key_set]
        /\ res' = filter_map_by_key_set(input_map, it, key_set)

CallFilterMapByValues ==
    /\ op = "idle"
    /\ \E input_map \in Maps(Keys, Vals), pred \in SUBSET Vals :
       \E it \in IterationOrders(DOMAIN input_map) :
        /\ op' = "filter_map_by_values"
        /\ args' = [input_map |-> input_map, it |-> it, pred |-> pred]
        /\ res' = filter_map_by_values(input_map, it, pred)

CallBuildMapFromVector ==
    /\ op = "idle"
    /\ \E vec \in Vectors, key_func \in [Elems -> Keys] :
        /\ op' = "build_map_from_vector"
        /\ args' = [vec |-> vec, key_func |-> key_func]
        /\ res' = build_map_from_vector(vec, key_func)

CallCombineMaps ==
    /\ op = "idle"
    /\ \E map1 \in Maps(Keys, Vals), map2 \in Maps(Keys, Vals), func \in Funcs :
       \E it1 \in IterationOrders(DOMAIN map1) :
        /\ op' = "combine_maps"
        /\ args' = [map1 |-> map1, it1 |-> it1, map2 |-> map2, func |-> func]
        /\ res' = combine_maps(map1, it1, map2, func)

\* to_set(vec), then to_set again on a sequence listing the result's elements
CallToSet ==
    /\ op = "idle"
    /\ \E vec \in Vectors :
       \E listing \in IterationOrders(Range(to_set(vec))) :
        /\ op' = "to_set"
        /\ args' = [vec |-> vec, listing |-> listing]
        /\ res' = [set |-> to_set(vec), again |-> to_set(listing)]

CallToUnorderedSet ==
    /\ op = "idle"
    /\ \E vec \in Vectors :
       \E listing \in IterationOrders(to_unordered_set(vec)) :
        /\ op' = "to_unordered_set"
        /\ args' = [vec |-> vec, listing |-> listing]
        /\ res' = [set |-> to_unordered_set(vec), again |-> to_unordered_set(listing)]

CallSetIntersectionOrdered ==
    /\ op = "idle"
    /\ \E A \in SUBSET Elems, B \in SUBSET Elems :
        /\ op' = "set_intersection_ordered"
        /\ args' = [a |-> StdSetOf(A), b |-> StdSetOf(B)]
        /\ res' = set_intersection_ordered(StdSetOf(A), StdSetOf(B))

CallSetIntersectionUnordered ==
    /\ op = "idle"
    /\ \E a \in SUBSET Elems, b \in SUBSET Elems :
       \E it \in IterationOrders(a) :
        /\ op' = "set_intersection_unordered"
        /\ args' = [a |-> a, it |-> it, b |-> b]
        /\ res' = set_intersection_unordered(it, b)

\* the call has returned (or thrown) and the client goes on
Return ==
    /\ op # "idle"
    /\ op' = "idle"
    /\ args' = <<>>
    /\ res' = <<>>

Next ==
    \/ CallAnyAll
    \/ CallJoinVectors
    \/ CallMapVector
    \/ CallFilterMap
    \/ CallFilterMapByKeys
    \/ CallFilterMapByKeySet
    \/ CallFilterMapByValues
    \/ CallBuildMapFromVector
    \/ CallCombineMaps
    \/ CallToSet
    \/ CallToUnorderedSet
    \/ CallSetIntersectionOrdered
    \/ CallSetIntersectionUnordered
    \/ Return

Spec == Init /\ [][Next]_vars

(***************************************************************************)
(* Properties                                                              *)
(***************************************************************************)
KeysOf(m) == DOMAIN m
Restrict(m, D) == [k \in D |-> m[k]]
SameSize(m1, m2) == Cardinality(KeysOf(m1)) = Cardinality(KeysOf(m2))

\* C1: combine_maps throws std::invalid_argument, and returns no map, whenever
\* the two maps differ in size or some key of map1 is absent from map2 (so also
\* when the sizes are equal and the keysets differ).
C1_CombineFailsOnMismatch ==
    op = "combine_maps" =>
        ((~SameSize(args.map1, args.map2) \/ ~(KeysOf(args.map1) \subseteq KeysOf(args.map2)))
            => /\ res.kind = "throw"
               /\ res.type = "std::invalid_argument"
               /\ "value" \notin DOMAIN res)

\* a call that failed on maps of equal size whose keysets differ
C1_Witness ==
    /\ op = "combine_maps"
    /\ SameSize(args.map1, args.map2)
    /\ KeysOf(args.map1) # KeysOf(args.map2)
    /\ res.kind = "throw"

\* C2: when the maps have the same size and every key of map1 is in map2,
\* combine_maps returns a map with exactly map1's keys whose value at k is
\* func(map1[k], map2[k]), for every iteration order of map1.
C2_CombineResult ==
    op = "combine_maps" =>
        ((SameSize(args.map1, args.map2) /\ KeysOf(args.map1) \subseteq KeysOf(args.map2))
            => /\ res.kind = "return"
               /\ KeysOf(res.value) = KeysOf(args.map1)
               /\ \A k \in KeysOf(args.map1) :
                      res.value[k] = invoke(args.func, args.map1[k], args.map2[k]))

\* a successful call on two keys where the argument order of func shows
C2_Witness ==
    /\ op = "combine_maps"
    /\ res.kind = "return"
    /\ Cardinality(KeysOf(args.map1)) >= 2
    /\ args.func = "sub"
    /\ args.it1[1] > args.it1[2]
    /\ \E k \in KeysOf(args.map1) : args.map1[k] # args.map2[k]

\* C3: build_map_from_vector returns a map whose keys are exactly the keys
\* computed from the elements and whose value at k is the element of smallest
\* index with that key (first occurrence wins).
C3_FirstOccurrenceWins ==
    op = "build_map_from_vector" =>
        LET vec == args.vec
            kf == args.key_func
            First(k) == CHOOSE i \in DOMAIN vec :
                            /\ kf[vec[i]] = k
                            /\ \A j \in DOMAIN vec : kf[vec[j]] = k => i <= j
        IN /\ KeysOf(res) = {kf[vec[i]] : i \in DOMAIN vec}
           /\ \A k \in KeysOf(res) : res[k] = vec[First(k)]

\* a later element with an already-present key and a different value was dropped
C3_Witness ==
    /\ op = "build_map_from_vector"
    /\ \E i, j \in DOMAIN args.vec :
        /\ i < j
        /\ args.key_func[args.vec[i]] = args.key_func[args.vec[j]]
        /\ args.vec[i] # args.vec[j]
        /\ res[args.key_func[args.vec[j]]] = args.vec[i]

\* C4: join_vectors(v1, v2) has length Len(v1) + Len(v2), starts with the
\* elements of v1 in order and continues with those of v2 in order; two empty
\* inputs give an empty result.
C4_Join ==
    op = "join_vectors" =>
        /\ Len(res) = Len(args.v1) + Len(args.v2)
        /\ \A i \in 1..Len(args.v1) : res[i] = args.v1[i]
        /\ \A j \in 1..Len(args.v2) : res[Len(args.v1) + j] = args.v2[j]
        /\ (args.v1 = <<>> /\ args.v2 = <<>> => res = <<>>)

\* two non-empty vectors with different contents were joined
C4_Witness ==
    /\ op = "join_vectors"
    /\ Len(args.v1) >= 1
    /\ Len(args.v2) >= 2
    /\ args.v1[1] # args.v2[1]
    /\ Len(res) >= 3

\* C5: map_vector(vec, func) has the length of vec, its i-th element is
\* func(vec[i]), and func was called once per element in increasing index order.
C5_MapVector ==
    op = "map_vector" =>
        /\ Len(res.result) = Len(args.vec)
        /\ \A i \in 1..Len(args.vec) : res.result[i] = args.func[args.vec[i]]
        /\ res.calls = args.vec

\* a vector of distinct elements mapped by a function that changes them
C5_Witness ==
    /\ op = "map_vector"
    /\ Len(args.vec) >= 2
    /\ args.vec[1] # args.vec[2]
    /\ args.func[args.vec[1]] # args.func[args.vec[2]]
    /\ res.result # args.vec

Truthy(v) == v # 0
Negated(c) == [i \in DOMAIN c |-> IF Truthy(c[i]) THEN 0 ELSE 1]

\* C6: any_of is true iff some element is truthy, all_of iff every element is;
\* so any_of of the empty vector is false, all_of of it is true, and any_of(c)
\* is the negation of all_of of c with every element's truthiness negated.
C6_AnyAll ==
    op = "any_all" =>
        /\ res.any = (\E i \in DOMAIN args.c : Truthy(args.c[i]))
        /\ res.all = (\A i \in DOMAIN args.c : Truthy(args.c[i]))
        /\ (args.c = <<>> => ~res.any /\ res.all)
        /\ res.any = ~all_of(Negated(args.c))

\* the vector [0, 1, 0]: some element truthy, not all
C6_Witness ==
    /\ op = "any_all"
    /\ args.c = <<0, 1, 0>>
    /\ res.any
    /\ ~res.all

\* C7: each filter returns exactly the sub-map of the entries its predicate (or
\* key set) accepts, values unchanged; each specialised filter agrees with
\* filter_map called with the corresponding (key, value) predicate; and the
\* keys of filter_map_by_key_set(m, S) are the keys of m that are in S.
C7_Filters ==
    LET m == args.input_map
        Generic(pred) == {filter_map(m, it2, pred) : it2 \in IterationOrders(KeysOf(m))}
    IN /\ op = "filter_map" =>
            res = Restrict(m, {k \in KeysOf(m) : <<k, m[k]>> \in args.pred})
       /\ op = "filter_map_by_keys" =>
            /\ res = Restrict(m, {k \in KeysOf(m) : k \in args.pred})
            /\ Generic(args.pred \X Vals) = {res}
       /\ op = "filter_map_by_values" =>
            /\ res = Restrict(m, {k \in KeysOf(m) : m[k] \in args.pred})
            /\ Generic(Keys \X args.pred) = {res}
       /\ op = "filter_map_by_key_set" =>
            /\ KeysOf(res) = KeysOf(m) \cap args.key_set
            /\ res = Restrict(m, KeysOf(m) \cap args.key_set)
            /\ Generic(args.key_set \X Vals) = {res}

\* a key set that keeps some entries of the map and drops others
C7_Witness ==
    /\ op = "filter_map_by_key_set"
    /\ KeysOf(res) # {}
    /\ KeysOf(res) # KeysOf(args.input_map)
    /\ \A k \in KeysOf(res) : res[k] = args.input_map[k]

\* C8: set_intersection returns exactly the elements that are in both sets, and
\* the merge over two std::set and the scan over two std::unordered_set return
\* the same set of elements on the same inputs.
C8_Intersection ==
    /\ op = "set_intersection_ordered" =>
        /\ IsStdSet(res)
        /\ Range(res) = Range(args.a) \cap Range(args.b)
        /\ \A it \in IterationOrders(Range(args.a)) :
               set_intersection_unordered(it, Range(args.b)) = Range(res)
    /\ op = "set_intersection_unordered" =>
        /\ res = args.a \cap args.b
        /\ Range(set_intersection_ordered(StdSetOf(args.a), StdSetOf(args.b))) = res

\* two overlapping ordered sets, neither containing the other
C8_Witness ==
    /\ op = "set_intersection_ordered"
    /\ res # <<>>
    /\ Range(args.a) \ Range(args.b) # {}
    /\ Range(args.b) \ Range(args.a) # {}

\* C9: to_set(vec) holds exactly the distinct elements of vec, each once, and
\* to_set of any sequence listing those elements is the same set; likewise for
\* to_unordered_set.
C9_ToSetIdempotent ==
    /\ op = "to_set" =>
        /\ IsStdSet(res.set)
        /\ Range(res.set) = Range(args.vec)
        /\ res.again = res.set
    /\ op = "to_unordered_set" =>
        /\ res.set = Range(args.vec)
        /\ res.again = res.set

\* a vector with a repeated element, and a listing of its set in another order
C9_Witness ==
    /\ op = "to_set"
    /\ Len(args.vec) > Len(res.set)
    /\ Len(res.set) >= 2
    /\ args.listing # res.set

\* C10: combine_maps returns a map iff map1 and map2 have the same keyset; on
\* success the result's keyset is also the keyset of map2.
C10_CombineIffSameKeyset ==
    op = "combine_maps" =>
        /\ (res.kind = "return") <=> (KeysOf(args.map1) = KeysOf(args.map2))
        /\ res.kind = "return" => KeysOf(res.value) = KeysOf(args.map2)

\* a successful call whose second map holds every key
C10_Witness ==
    /\ op = "combine_maps"
    /\ res.kind = "return"
    /\ KeysOf(args.map2) = Keys
    /\ KeysOf(res.value) = Keys

====
